---- MODULE Spec2Model ----
(***************************************************************************)
(* The energy forecasting module of the smart-home dashboard,              *)
(* src/src/utils/predictionUtils.js, as a state machine: a caller holds a  *)
(* raw input and a clock, and applies the exported functions to them.      *)
(*                                                                         *)
(* Numbers.  Wattages of readings are integers (watts).  The quantiles of  *)
(* calculateQuantile for q = 0.25 and q = 0.75 are multiples of 1/4, so    *)
(* they are carried multiplied by 4, and the outlier bounds multiplied by  *)
(* 8; with integer wattages every one of these values is exact in IEEE     *)
(* doubles as well.  The weighted average of predictEnergyUsage is the     *)
(* rational num/den.  predictedWattage (1 decimal) is carried in tenths of *)
(* a watt, a confidence (0.6 .. 0.9) in hundredths.  NaN (the hour of an   *)
(* invalid date) is the value NaN == -1, which equals no hour 0..23.       *)
(*                                                                         *)
(* Math.random() is a generator with a hidden state: rng is that state,    *)
(* every call returns rng / RandSteps (a value of [0,1)) and advances it.  *)
(***************************************************************************)
EXTENDS Integers, Sequences, FiniteSets, TLC

VARIABLES
  readings,        \* the caller's raw input (historicalData / readings)
  nowHour,         \* new Date().getHours() at the time of the call
  nowDay,          \* new Date().getDay() at the time of the call
  rng,             \* the state of Math.random()
  pc,              \* "ready", or the name of the function that has been called
  normalizedReadings, \* preprocessEnergyData's normalizedReadings (before filtering)
  preprocessed,    \* the value returned by preprocessEnergyData
  targetHour,      \* the arguments of the last call of the predictor or
  targetDay,       \*   the confidence estimator
  predicted,       \* the value returned by predictEnergyUsage
  confidence,      \* the value returned by calculatePredictionConfidence
  hourlyPredictions, \* the value returned by generateHourlyPredictions
  result,          \* the value returned by generateEnergyPredictionAnalysis
  dailyArg,        \* the argument of the last call of calculateDailyPrediction
  daily            \* the value returned by calculateDailyPrediction

vars == <<readings, nowHour, nowDay, rng, pc, normalizedReadings, preprocessed,
          targetHour, targetDay, predicted, confidence, hourlyPredictions, result,
          dailyArg, daily>>

----------------------------------------------------------------------------
(* Bounds of the model *)

\* resolution of Math.random(): it returns 0/RandSteps .. (RandSteps-1)/RandSteps
RandSteps == 4
\* longest array of raw readings handed to the whole pipeline
MaxLen == 6

----------------------------------------------------------------------------
(* Values *)

NaN == -1

Hours == 0..23
Days == 0..6

\* a field of a raw record: missing, or holding a value
Absent == [kind |-> "absent", hour |-> 0, day |-> 0, n |-> 0]
\* a timestamp that new Date() parses: its local hour and weekday
Stamp(h, d) == [kind |-> "date", hour |-> h, day |-> d, n |-> 0]
\* a present, truthy timestamp that new Date() does not parse (Invalid Date)
BadStamp == [kind |-> "invalid", hour |-> 0, day |-> 0, n |-> 0]
\* a number
Num(w) == [kind |-> "num", hour |-> 0, day |-> 0, n |-> w]

\* JavaScript truthiness of a field value: undefined and 0 are falsy
Truthy(f) == f.kind # "absent" /\ ~(f.kind = "num" /\ f.n = 0)

\* a raw reading record; isNull: the array element is null or undefined
Raw(T, t, tm, W, w, v) ==
  [isNull |-> FALSE, Timestamp |-> T, timestamp |-> t, time |-> tm,
   WattageReading |-> W, watts |-> w, value |-> v]
NullElement ==
  [isNull |-> TRUE, Timestamp |-> Absent, timestamp |-> Absent, time |-> Absent,
   WattageReading |-> Absent, watts |-> Absent, value |-> Absent]

\* the raw input: null, undefined, a value that is no array, or an array
NullInput == [kind |-> "null", items |-> <<>>]
UndefinedInput == [kind |-> "undefined", items |-> <<>>]
\* the number 0: falsy
ZeroInput == [kind |-> "zero", items |-> <<>>]
\* a truthy value without a length, such as a plain object
NonArrayInput == [kind |-> "nonarray", items |-> <<>>]
\* a string of 7 characters, such as "no data": no array, but it has a length
LongStringInput == [kind |-> "string", items |-> <<>>]
ArrayInput(s) == [kind |-> "array", items |-> s]

\* a normalized reading
Reading(h, d, w) == [hour |-> h, dayOfWeek |-> d, wattage |-> w]

\* the value a function returns, or the TypeError it throws
Returned(v) == [threw |-> FALSE, value |-> v]
Threw == [threw |-> TRUE, value |-> <<>>]

----------------------------------------------------------------------------
(* Helpers on sequences *)

RECURSIVE SeqSum(_)
SeqSum(s) == IF s = <<>> THEN 0 ELSE Head(s) + SeqSum(Tail(s))

RECURSIVE SeqMax(_)
SeqMax(s) == IF Len(s) = 1 THEN s[1]
             ELSE LET m == SeqMax(Tail(s)) IN IF s[1] >= m THEN s[1] ELSE m

RECURSIVE Insert(_, _)
Insert(x, s) == IF s = <<>> THEN <<x>>
                ELSE IF x < Head(s) THEN <<x>> \o s
                ELSE <<Head(s)>> \o Insert(x, Tail(s))

\* [...values].sort((a, b) => a - b): ascending order
RECURSIVE Sorted(_)
Sorted(s) == IF s = <<>> THEN <<>> ELSE Insert(Head(s), Sorted(Tail(s)))

\* Math.round(num / den) for den > 0: the nearest integer, halves upwards
Round(num, den) == (2 * num + den) \div (2 * den)

\* Math.random() and the state after the call
Random(s) == s
RngNext(s) == (s + 1) % RandSteps
\* a + Math.random() * span, for the draw taken in state s; the spans of the
\* code (100 .. 700) are multiples of 100, so the division is exact for
\* RandSteps 4 and 5, and so is the weekend factor 1.2 of the placeholder data
Jitter(a, span, s) == a + (span * Random(s)) \div RandSteps

----------------------------------------------------------------------------
(* calculateQuantile, for q = qNum / 4; the value returned is 4 * quantile *)

\* calculateQuantile without the interpolation (the order statistic at base)
QuantileAtBase4(values, qNum) ==
  IF Len(values) = 0 THEN 0
  ELSE 4 * Sorted(values)[((Len(values) - 1) * qNum) \div 4 + 1]

\* calculateQuantile without the sort: it reads the values in the given order
QuantileUnsorted4(values, qNum) ==
  IF Len(values) = 0 THEN 0
  ELSE LET pos4   == (Len(values) - 1) * qNum
           base   == pos4 \div 4
           rest4  == pos4 - 4 * base
       IN  IF base + 2 <= Len(values)
           THEN 4 * values[base + 1] + rest4 * (values[base + 2] - values[base + 1])
           ELSE 4 * values[base + 1]

calculateQuantile4(values, qNum) ==
  IF Len(values) = 0 THEN 0
  ELSE LET sorted == Sorted(values)
           pos4   == (Len(sorted) - 1) * qNum      \* 4 * pos
           base   == pos4 \div 4                   \* Math.floor(pos), 0-based
           rest4  == pos4 - 4 * base               \* 4 * rest
       IN  IF base + 2 <= Len(sorted)              \* sorted[base + 1] !== undefined
           THEN 4 * sorted[base + 1] + rest4 * (sorted[base + 2] - sorted[base + 1])
           ELSE 4 * sorted[base + 1]

----------------------------------------------------------------------------
(* generatePlaceholderData: 24 synthetic readings, one per hour, all on the
   current weekday; the draw of hour h is taken in state s + h *)

PlaceholderWattage(h, currentDay, s) ==
  LET wattage == IF h >= 23 \/ h < 5 THEN Jitter(300, 200, s)
                 ELSE IF h >= 5 /\ h < 9 THEN Jitter(1200, 600, s)
                 ELSE IF h >= 9 /\ h < 17 THEN Jitter(800, 300, s)
                 ELSE Jitter(1500, 700, s)
  IN  IF (currentDay = 0 \/ currentDay = 6) /\ h >= 9 /\ h < 22
      THEN (wattage * 6) \div 5                    \* wattage *= 1.2
      ELSE wattage

generatePlaceholderData(currentDay, s) ==
  [k \in 1..24 |->
     Reading(k - 1, currentDay,
             PlaceholderWattage(k - 1, currentDay, (s + k - 1) % RandSteps))]

----------------------------------------------------------------------------
(* preprocessEnergyData *)

\* the input is replaced by placeholder data
IsEmptyInput(rd) == rd.kind # "array" \/ Len(rd.items) = 0

\* r.Timestamp || r.timestamp || r.time || new Date()
TimestampOf(r, hourNow, dayNow) ==
  IF Truthy(r.Timestamp) THEN r.Timestamp
  ELSE IF Truthy(r.timestamp) THEN r.timestamp
  ELSE IF Truthy(r.time) THEN r.time
  ELSE Stamp(hourNow, dayNow)

\* r.WattageReading || r.watts || r.value || 0
WattageOf(r) ==
  IF Truthy(r.WattageReading) THEN r.WattageReading.n
  ELSE IF Truthy(r.watts) THEN r.watts.n
  ELSE IF Truthy(r.value) THEN r.value.n
  ELSE 0

\* new Date(timestamp).getHours() and .getDay(); NaN for an Invalid Date
GetHours(ts) == IF ts.kind = "date" THEN ts.hour ELSE NaN
GetDay(ts) == IF ts.kind = "date" THEN ts.day ELSE NaN

NormalizeOne(r, hourNow, dayNow) ==
  LET timestamp == TimestampOf(r, hourNow, dayNow)
  IN  Reading(GetHours(timestamp), GetDay(timestamp), WattageOf(r))

\* NormalizedReadings that rejects the records without any timestamp field
NormalizedReadingsRejecting(items, hourNow, dayNow) ==
  LET kept == SelectSeq(items, LAMBDA r : Truthy(r.Timestamp) \/ Truthy(r.timestamp)
                                            \/ Truthy(r.time))
  IN  [k \in 1..Len(kept) |-> NormalizeOne(kept[k], hourNow, dayNow)]

\* readings.map(r => ...)
NormalizedReadings(items, hourNow, dayNow) ==
  [k \in 1..Len(items) |-> NormalizeOne(items[k], hourNow, dayNow)]

Wattages(data) == [k \in 1..Len(data) |-> data[k].wattage]

\* 8 * lowerBound and 8 * upperBound of the IQR rule
LowerBound8(values) ==
  LET q1 == calculateQuantile4(values, 1)
      q3 == calculateQuantile4(values, 3)
  IN  2 * q1 - 3 * (q3 - q1)
\* UpperBound8 with the margin subtracted (q3 - 1.5 * iqr)
UpperBoundInside8(values) ==
  LET q1 == calculateQuantile4(values, 1)
      q3 == calculateQuantile4(values, 3)
  IN  2 * q3 - 3 * (q3 - q1)

\* upperBound = q3 + 1.5 * iqr, times 8
UpperBound8(values) ==
  LET q1 == calculateQuantile4(values, 1)
      q3 == calculateQuantile4(values, 3)
  IN  2 * q3 + 3 * (q3 - q1)

\* RemoveOutliers with the bounds excluded (> and < for >= and <=)
RemoveOutliersStrict(normalized) ==
  LET values == Wattages(normalized)
      lo8 == LowerBound8(values)
      hi8 == UpperBound8(values)
  IN  SelectSeq(normalized,
                LAMBDA r : 8 * r.wattage > lo8 /\ 8 * r.wattage < hi8)

\* normalizedReadings.filter(r => r.wattage >= lowerBound && r.wattage <= upperBound)
RemoveOutliers(normalized) ==
  LET values == Wattages(normalized)
      lo8 == LowerBound8(values)
      hi8 == UpperBound8(values)
  IN  SelectSeq(normalized,
                LAMBDA r : 8 * r.wattage >= lo8 /\ 8 * r.wattage <= hi8)

\* FilterApplies from 5 readings on (>= for >)
FilterAppliesFromFive(normalized) == Len(normalized) >= 5

\* the size from which the outlier filter is applied: length > 5
FilterApplies(normalized) == Len(normalized) > 5

\* reading a property of a null or undefined element raises a TypeError
HasNullElement(items) == \E k \in 1..Len(items) : items[k].isNull

\* FilterStep without the size test: the interquartile rule at every length
FilterStepAlways(normalized) == RemoveOutliers(normalized)

\* the filtering of preprocessEnergyData: its lines from the size test on
FilterStep(normalized) ==
  IF FilterApplies(normalized) THEN RemoveOutliers(normalized) ELSE normalized

\* preprocessEnergyData that returns no readings for an empty or invalid input
PreprocessEmptyForEmpty(rd, hourNow, dayNow, s) ==
  IF IsEmptyInput(rd) THEN Returned(<<>>)
  ELSE IF HasNullElement(rd.items) THEN Threw
  ELSE Returned(FilterStep(NormalizedReadings(rd.items, hourNow, dayNow)))

\* preprocessEnergyData(readings): placeholder data for an empty or invalid
\* input, else the normalized readings with the outliers filtered
preprocessEnergyData(rd, hourNow, dayNow, s) ==
  IF IsEmptyInput(rd) THEN Returned(generatePlaceholderData(dayNow, s))
  ELSE IF HasNullElement(rd.items) THEN Threw
  ELSE Returned(FilterStep(NormalizedReadings(rd.items, hourNow, dayNow)))

\* the calls of Math.random() made by preprocessEnergyData
PreprocessDraws(rd) == IF IsEmptyInput(rd) THEN 24 ELSE 0

----------------------------------------------------------------------------
(* predictEnergyUsage and generateDefaultValue *)

\* historicalData.filter(data => data.hour === targetHour && data.dayOfWeek === targetDay)
ExactPatterns(historicalData, h, d) ==
  SelectSeq(historicalData, LAMBDA data : data.hour = h /\ data.dayOfWeek = d)

\* historicalData.filter(data => data.hour === targetHour)
HourPatterns(historicalData, h) ==
  SelectSeq(historicalData, LAMBDA data : data.hour = h)

\* similarPatterns after the fallback to the same hour on any day
SimilarPatterns(historicalData, h, d) ==
  IF Len(ExactPatterns(historicalData, h, d)) = 0
  THEN HourPatterns(historicalData, h)
  ELSE ExactPatterns(historicalData, h, d)

\* Weight with the weights growing with the index
WeightRecent(n, i) == i + 1

\* Weight that is the same for every match (the plain mean)
WeightUniform(n, i) == 1

\* the weight of the pattern at 0-based index i among n patterns
Weight(n, i) == n - i

\* TotalWeight that counts the patterns (the divisor of a plain mean)
TotalWeightCount(patterns) == Len(patterns)

\* similarPatterns.reduce((sum, _, i) => sum + (similarPatterns.length - i), 0)
TotalWeight(patterns) ==
  SeqSum([k \in 1..Len(patterns) |-> Weight(Len(patterns), k - 1)])

\* similarPatterns.reduce((sum, pattern, i) => sum + pattern.wattage * (length - i), 0)
WeightedSum(patterns) ==
  SeqSum([k \in 1..Len(patterns) |->
            patterns[k].wattage * Weight(Len(patterns), k - 1)])

\* generateDefaultValue with the spans of the placeholder data (200, 600, 300, 700)
DefaultValueWide(hour, s) ==
  IF hour >= 23 \/ hour < 5 THEN Jitter(300, 200, s)
  ELSE IF hour >= 5 /\ hour < 9 THEN Jitter(1200, 600, s)
  ELSE IF hour >= 9 /\ hour < 17 THEN Jitter(800, 300, s)
  ELSE Jitter(1500, 700, s)

\* the draw is taken in state s
generateDefaultValue(hour, s) ==
  IF hour >= 23 \/ hour < 5 THEN Jitter(300, 100, s)
  ELSE IF hour >= 5 /\ hour < 9 THEN Jitter(1200, 300, s)
  ELSE IF hour >= 9 /\ hour < 17 THEN Jitter(800, 200, s)
  ELSE Jitter(1500, 300, s)

\* the predictor reaches generateDefaultValue (and calls Math.random() once)
UsesDefault(historicalData, h, d) == Len(SimilarPatterns(historicalData, h, d)) = 0

\* predictEnergyUsage without the fallback to the same hour on any day
PredictNoFallback(historicalData, h, d, s) ==
  LET similarPatterns == ExactPatterns(historicalData, h, d)
  IN  IF Len(similarPatterns) = 0
      THEN [num |-> generateDefaultValue(h, s), den |-> 1]
      ELSE [num |-> WeightedSum(similarPatterns), den |-> TotalWeight(similarPatterns)]

\* predictEnergyUsage that also draws a random term onto the weighted average
PredictJittered(historicalData, h, d, s) ==
  LET similarPatterns == SimilarPatterns(historicalData, h, d)
  IN  IF Len(similarPatterns) = 0
      THEN [num |-> generateDefaultValue(h, s), den |-> 1]
      ELSE [num |-> WeightedSum(similarPatterns) + Random(s),
            den |-> TotalWeight(similarPatterns)]

\* the number returned is num / den
predictEnergyUsage(historicalData, h, d, s) ==
  LET similarPatterns == SimilarPatterns(historicalData, h, d)
  IN  IF Len(similarPatterns) = 0
      THEN [num |-> generateDefaultValue(h, s), den |-> 1]
      ELSE [num |-> WeightedSum(similarPatterns), den |-> TotalWeight(similarPatterns)]

----------------------------------------------------------------------------
(* calculatePredictionConfidence, in hundredths.  With n values of sum S and
   sum of squares Q, mean = S / n and variance = (n * Q - S * S) / (n * n),
   so coefficientOfVariation ^ 2 = (n * Q - S * S) / (S * S) when mean > 0,
   and CV < c / 10  iff  100 * (n * Q - S * S) < c * c * S * S. *)

\* CVBelow with the sample variance (division by n - 1) for the population's
CVBelowSample(values, c) ==
  LET n == Len(values)
      S == SeqSum(values)
      Q == SeqSum([k \in 1..n |-> values[k] * values[k]])
  IN  IF S > 0 THEN 100 * n * (n * Q - S * S) < c * c * S * S * (n - 1) ELSE FALSE

CVBelow(values, c) ==
  LET n == Len(values)
      S == SeqSum(values)
      Q == SeqSum([k \in 1..n |-> values[k] * values[k]])
  IN  \* mean > 0 ? stdDev / mean : 1
      IF S > 0 THEN 100 * (n * Q - S * S) < c * c * S * S ELSE FALSE

\* calculatePredictionConfidence with a confidence that grows with the count
ConfidenceByCount(historicalData, h, d) ==
  LET patternCount == Len(ExactPatterns(historicalData, h, d))
  IN  IF patternCount = 0 THEN 60
      ELSE IF patternCount < 3 THEN 60 + 5 * patternCount
      ELSE IF CVBelow(Wattages(ExactPatterns(historicalData, h, d)), 1) THEN 90
      ELSE 75

\* calculatePredictionConfidence that falls back to the readings of the same
\* hour on any day, as the predictor does
ConfidenceRelaxed(historicalData, h, d) ==
  LET similarPatterns == SimilarPatterns(historicalData, h, d)
      patternCount == Len(similarPatterns)
      values == Wattages(similarPatterns)
  IN  IF patternCount = 0 THEN 60
      ELSE IF patternCount < 3 THEN 65
      ELSE IF CVBelow(values, 1) THEN 90
      ELSE IF CVBelow(values, 2) THEN 80
      ELSE IF CVBelow(values, 3) THEN 70
      ELSE 60

\* calculatePredictionConfidence(historicalData, hour, dayOfWeek), in hundredths
calculatePredictionConfidence(historicalData, h, d) ==
  LET similarPatterns == ExactPatterns(historicalData, h, d)
      patternCount == Len(similarPatterns)
      values == Wattages(similarPatterns)
  IN  IF patternCount = 0 THEN 60
      ELSE IF patternCount < 3 THEN 65
      ELSE IF CVBelow(values, 1) THEN 90
      ELSE IF CVBelow(values, 2) THEN 80
      ELSE IF CVBelow(values, 3) THEN 70
      ELSE 60

----------------------------------------------------------------------------
(* generateHourlyPredictions *)

\* TargetHour without the wrap at midnight
TargetHourUnwrapped(currentHour, i) == currentHour + i

\* (now.getHours() + i) % 24
TargetHour(currentHour, i) == (currentHour + i) % 24
DaysForward(currentHour, i) == (currentHour + i) \div 24
\* TargetDay without the days carried over midnight
TargetDayToday(currentHour, currentDay, i) == currentDay
TargetDay(currentHour, currentDay, i) == (currentDay + DaysForward(currentHour, i)) % 7

\* predictionTime: the start of the hour i hours after the current one, as the
\* number of hours since the start (Sunday 00:00) of the current week
PredictionTime(currentHour, currentDay, i) == 24 * currentDay + currentHour + i

\* RoundTenths that truncates (Math.floor for Math.round)
FloorTenths(p) == (10 * p.num) \div p.den

\* Math.round(predictedWattage * 10) / 10, in tenths of a watt
RoundTenths(p) == Round(10 * p.num, p.den)

\* the prediction pushed in iteration i, its draw (if any) taken in state s
HourlyPrediction(processedData, currentHour, currentDay, i, s) ==
  LET h == TargetHour(currentHour, i)
      d == TargetDay(currentHour, currentDay, i)
  IN  [time |-> PredictionTime(currentHour, currentDay, i),
       hour |-> h,
       dayOfWeek |-> d,
       predictedWattage |-> RoundTenths(predictEnergyUsage(processedData, h, d, s)),
       confidence |-> calculatePredictionConfidence(processedData, h, d)]

\* the iterations i .. 23 of the loop, Math.random() being in state s at i
RECURSIVE PredictionLoop(_, _, _, _, _)
PredictionLoop(processedData, currentHour, currentDay, i, s) ==
  IF i >= 24 THEN <<>>
  ELSE LET h == TargetHour(currentHour, i)
           d == TargetDay(currentHour, currentDay, i)
           s2 == IF UsesDefault(processedData, h, d) THEN RngNext(s) ELSE s
       IN  <<HourlyPrediction(processedData, currentHour, currentDay, i, s)>>
           \o PredictionLoop(processedData, currentHour, currentDay, i + 1, s2)

generateHourlyPredictions(rd, currentHour, currentDay, s) ==
  LET processed == preprocessEnergyData(rd, currentHour, currentDay, s)
      s1 == (s + PreprocessDraws(rd)) % RandSteps
  IN  IF processed.threw THEN Threw
      ELSE IF Len(processed.value) = 0 THEN Returned(<<>>)
      ELSE Returned(PredictionLoop(processed.value, currentHour, currentDay, 0, s1))

\* the calls of Math.random() made by generateHourlyPredictions
HourlyDraws(rd, currentHour, currentDay, s) ==
  LET processed == preprocessEnergyData(rd, currentHour, currentDay, s)
  IN  IF processed.threw THEN 0
      ELSE PreprocessDraws(rd)
           + Cardinality({i \in 0..23 :
               /\ Len(processed.value) > 0
               /\ UsesDefault(processed.value, TargetHour(currentHour, i),
                              TargetDay(currentHour, currentDay, i))})

----------------------------------------------------------------------------
(* calculateDailyPrediction: totalKWh and averageConfidence in hundredths,
   peakWattage in watts.  Its argument is null, undefined or an array.  An
   exact half is rounded upwards here; in doubles totalKWh * 100 and
   avgConfidence * 100 may fall just below the half and be rounded downwards. *)

\* defaultHourlyUsage * 24 = 0.8 * 24 kWh (not rounded: 19.200000000000003 in
\* doubles), 1800 W, 0.6
DefaultSummary ==
  [totalKWh |-> 80 * 24, peakWattage |-> 1800, averageConfidence |-> 60]

\* calculateDailyPrediction that rounds downwards (Math.floor for Math.round)
DailySummaryFloor(predictions) ==
  LET watts == [k \in 1..Len(predictions) |-> predictions[k].predictedWattage]
      confs == [k \in 1..Len(predictions) |-> predictions[k].confidence]
  IN  [totalKWh |-> SeqSum(watts) \div 100,
       peakWattage |-> SeqMax(watts) \div 10,
       averageConfidence |-> SeqSum(confs) \div Len(confs)]

\* the summary of a non-empty array of predictions
DailySummary(predictions) ==
  LET watts == [k \in 1..Len(predictions) |-> predictions[k].predictedWattage]
      confs == [k \in 1..Len(predictions) |-> predictions[k].confidence]
  IN  [totalKWh |-> Round(SeqSum(watts), 100),
       peakWattage |-> Round(SeqMax(watts), 10),
       averageConfidence |-> Round(SeqSum(confs), Len(confs))]

\* calculateDailyPrediction without the default for no predictions: a total of
\* 0, Math.max() = -Infinity and 0 / 0 = NaN
DailyWithoutDefault(arg) ==
  IF arg.kind # "array" \/ Len(arg.items) = 0
  THEN [totalKWh |-> 0, peakWattage |-> NaN, averageConfidence |-> NaN]
  ELSE DailySummary(arg.items)

calculateDailyPrediction(arg) ==
  \* !hourlyPredictions || hourlyPredictions.length === 0
  IF arg.kind # "array" \/ Len(arg.items) = 0 THEN DefaultSummary
  ELSE DailySummary(arg.items)

----------------------------------------------------------------------------
(* generateEnergyPredictionAnalysis *)

FormatPrediction(pred) ==
  [fullTime |-> pred.time,
   predictedWatts |-> pred.predictedWattage,
   confidence |-> pred.confidence,
   \* [watts * (1 - (1 - c)), watts * (1 + (1 - c))], in thousandths of a watt
   confidenceInterval |-> <<pred.predictedWattage * (100 - (100 - pred.confidence)),
                            pred.predictedWattage * (100 + (100 - pred.confidence))>>]

\* historicalData && historicalData.length > 5: the value of the expression,
\* "true" or "false" for the booleans.  A falsy historicalData (null,
\* undefined, 0) is returned as it is; a value without a length gives
\* undefined > 5, which is false; the 7 characters of the string are more than 5
IsBasedOnRealData(rd) ==
  IF rd.kind = "array" THEN IF Len(rd.items) > 5 THEN "true" ELSE "false"
  ELSE IF rd.kind = "nonarray" THEN "false"
  ELSE IF rd.kind = "string" THEN "true"
  ELSE rd.kind

\* dataPoints counted after normalization and filtering
DataPointsFiltered(rd) ==
  IF rd.kind = "array" THEN Len(FilterStep(NormalizedReadings(rd.items, 0, 0)))
  ELSE IF rd.kind = "nonarray" THEN NaN
  ELSE IF rd.kind = "string" THEN 7
  ELSE 0

\* historicalData ? historicalData.length : 0
DataPoints(rd) ==
  IF rd.kind = "array" THEN Len(rd.items)
  ELSE IF rd.kind = "nonarray" THEN NaN        \* .length of a non-array: undefined
  ELSE IF rd.kind = "string" THEN 7            \* the length of the string
  ELSE 0

generateEnergyPredictionAnalysis(rd, currentHour, currentDay, s) ==
  LET hourly == generateHourlyPredictions(rd, currentHour, currentDay, s)
  IN  IF hourly.threw THEN Threw
      ELSE Returned(
        [hourlyPredictions |->
           [k \in 1..Len(hourly.value) |-> FormatPrediction(hourly.value[k])],
         dailySummary |-> calculateDailyPrediction(ArrayInput(hourly.value)),
         isBasedOnRealData |-> IsBasedOnRealData(rd),
         dataPoints |-> DataPoints(rd)])

----------------------------------------------------------------------------
(* The caller: the inputs it holds and the calls it makes *)

RECURSIVE SeqsUpTo(_, _)
\* the sequences of at most n elements of S
SeqsUpTo(S, n) ==
  IF n = 0 THEN {<<>>}
  ELSE LET shorter == SeqsUpTo(S, n - 1)
       IN  shorter \cup {Append(q, x) : q \in {t \in shorter : Len(t) = n - 1}, x \in S}

\* a record as the database returns it
Record(h, d, w) == Raw(Stamp(h, d), Absent, Absent, Num(w), Absent, Absent)

\* the raw records of the inputs handed to the whole pipeline
PipelinePool == {Record(14, 2, 100), Record(14, 2, 150), NullElement}

\* the clocks of the calls: a Tuesday afternoon, the last hour of a Saturday,
\* and the first hour of a Wednesday
Clocks == {<<14, 2>>, <<23, 6>>, <<0, 3>>}

\* the (hour, weekday) targets the caller asks the predictor about: the slot of
\* the readings, their hour on another day, and another hour
Targets == {<<14, 2>>, <<14, 4>>, <<9, 2>>}

\* the states of Math.random()
Seeds == 0..(RandSteps - 1)

NoValue == Returned(<<>>)
NoNumber == [num |-> 0, den |-> 1]
NoSummary == [totalKWh |-> 0, peakWattage |-> 0, averageConfidence |-> 0]

InitWith(inputs, clocks, targets, seeds) ==
  /\ readings \in inputs
  /\ \E c \in clocks : nowHour = c[1] /\ nowDay = c[2]
  /\ \E t \in targets : targetHour = t[1] /\ targetDay = t[2]
  /\ rng \in seeds
  /\ pc = "ready"
  /\ normalizedReadings = <<>>
  /\ preprocessed = NoValue
  /\ predicted = NoNumber
  /\ confidence = 0
  /\ hourlyPredictions = NoValue
  /\ result = NoValue
  /\ dailyArg = UndefinedInput
  /\ daily = NoSummary

PipelineInputs ==
  {NullInput, UndefinedInput, ZeroInput, NonArrayInput, LongStringInput}
    \cup {ArrayInput(q) : q \in SeqsUpTo(PipelinePool, MaxLen)}

Init == InitWith(PipelineInputs, Clocks, {<<14, 2>>}, Seeds)

\* preprocessEnergyData(readings)
CallPreprocess ==
  /\ pc = "ready"
  /\ pc' = "preprocessed"
  /\ normalizedReadings' =
       IF IsEmptyInput(readings) \/ HasNullElement(readings.items) THEN <<>>
       ELSE NormalizedReadings(readings.items, nowHour, nowDay)
  /\ preprocessed' = preprocessEnergyData(readings, nowHour, nowDay, rng)
  /\ rng' = (rng + PreprocessDraws(readings)) % RandSteps
  /\ UNCHANGED <<readings, nowHour, nowDay, targetHour, targetDay, predicted,
                 confidence, hourlyPredictions, result, dailyArg, daily>>

\* predictEnergyUsage(processedData, targetHour, targetDay)
CallPredict ==
  /\ pc = "preprocessed"
  /\ ~preprocessed.threw
  /\ pc' = "predicted"
  /\ predicted' = predictEnergyUsage(preprocessed.value, targetHour, targetDay, rng)
  /\ rng' = IF UsesDefault(preprocessed.value, targetHour, targetDay)
            THEN RngNext(rng) ELSE rng
  /\ UNCHANGED <<readings, nowHour, nowDay, normalizedReadings, preprocessed,
                 targetHour, targetDay, confidence, hourlyPredictions, result,
                 dailyArg, daily>>

\* calculatePredictionConfidence(processedData, targetHour, targetDay)
CallConfidence ==
  /\ pc = "preprocessed"
  /\ ~preprocessed.threw
  /\ pc' = "estimated"
  /\ confidence' = calculatePredictionConfidence(preprocessed.value, targetHour, targetDay)
  /\ UNCHANGED <<readings, nowHour, nowDay, rng, normalizedReadings, preprocessed,
                 targetHour, targetDay, predicted, hourlyPredictions, result,
                 dailyArg, daily>>

\* CallAnalysis with a pipeline that reverses the caller's array in place
CallAnalysisInPlace ==
  /\ pc = "ready"
  /\ pc' = "analysed"
  /\ preprocessed' = preprocessEnergyData(readings, nowHour, nowDay, rng)
  /\ hourlyPredictions' = generateHourlyPredictions(readings, nowHour, nowDay, rng)
  /\ result' = generateEnergyPredictionAnalysis(readings, nowHour, nowDay, rng)
  /\ rng' = (rng + HourlyDraws(readings, nowHour, nowDay, rng)) % RandSteps
  /\ readings' = [readings EXCEPT !.items =
                    [k \in 1..Len(@) |-> @[Len(@) + 1 - k]]]
  /\ UNCHANGED <<nowHour, nowDay, normalizedReadings,
                 targetHour, targetDay, predicted, confidence, dailyArg, daily>>

\* generateEnergyPredictionAnalysis(readings)
CallAnalysis ==
  /\ pc = "ready"
  /\ pc' = "analysed"
  \* processedData of generateHourlyPredictions
  /\ preprocessed' = preprocessEnergyData(readings, nowHour, nowDay, rng)
  /\ hourlyPredictions' = generateHourlyPredictions(readings, nowHour, nowDay, rng)
  /\ result' = generateEnergyPredictionAnalysis(readings, nowHour, nowDay, rng)
  /\ rng' = (rng + HourlyDraws(readings, nowHour, nowDay, rng)) % RandSteps
  /\ UNCHANGED <<readings, nowHour, nowDay, normalizedReadings,
                 targetHour, targetDay, predicted, confidence, dailyArg, daily>>

\* the arrays of predictions the caller hands to calculateDailyPrediction: the
\* first one, the first three, or all of the predictions it has obtained
PredictionArrays ==
  IF pc = "analysed" /\ ~hourlyPredictions.threw
  THEN {ArrayInput(SubSeq(hourlyPredictions.value, 1, n)) : n \in {1, 3, 24}}
  ELSE {}

\* calculateDailyPrediction(arg), for no predictions or the predictions obtained
CallDaily ==
  /\ pc \in {"ready", "analysed"}
  /\ pc' = "summarised"
  /\ \E arg \in {NullInput, UndefinedInput, ArrayInput(<<>>)} \cup PredictionArrays :
       /\ dailyArg' = arg
       /\ daily' = calculateDailyPrediction(arg)
  /\ UNCHANGED <<readings, nowHour, nowDay, rng, normalizedReadings, preprocessed,
                 targetHour, targetDay, predicted, confidence, hourlyPredictions,
                 result>>

Next == CallPreprocess \/ CallPredict \/ CallConfidence \/ CallAnalysis \/ CallDaily

Spec == Init /\ [][Next]_vars

----------------------------------------------------------------------------
(* The caller of the single functions: preprocessEnergyData, then the
   predictor or the confidence estimator on the data it returned *)

NextFunctions == CallPreprocess \/ CallPredict \/ CallConfidence

\* longest array of the inputs with incomplete records
MaxNormLen == 2

\* raw records in the formats the normalizer accepts, complete and incomplete
NormPool ==
  { Record(14, 2, 100),
    Raw(Absent, Absent, Absent, Absent, Absent, Absent),
    Raw(Absent, Stamp(9, 3), Absent, Absent, Num(250), Absent),
    Raw(Absent, Absent, Stamp(20, 5), Absent, Absent, Num(75)),
    Raw(Stamp(7, 1), Absent, Absent, Absent, Absent, Absent),
    Raw(Absent, Absent, Absent, Num(300), Absent, Absent),
    Raw(BadStamp, Absent, Absent, Num(0), Num(50), Absent),
    Raw(Num(0), Stamp(3, 4), Stamp(5, 6), Num(60), Num(70), Num(0)) }

NormalizeInputs ==
  PipelineInputs \cup {ArrayInput(q) : q \in SeqsUpTo(NormPool, MaxNormLen)}

InitNormalize == InitWith(NormalizeInputs, Clocks, {<<14, 2>>}, Seeds)

SpecNormalize == InitNormalize /\ [][NextFunctions]_vars

\* longest array of the inputs of the predictor and the confidence estimator;
\* at most 5, so that preprocessEnergyData hands every reading on
MaxPatterns == 4

\* readings of one slot with wattages of different spread (and 0), and a
\* reading of the same hour on another day
ConfidencePool ==
  { Record(14, 2, 0), Record(14, 2, 300), Record(14, 2, 500), Record(14, 2, 600),
    Record(14, 2, 700), Record(14, 3, 600) }

ConfidenceInputs == {ArrayInput(q) : q \in SeqsUpTo(ConfidencePool, MaxPatterns)}

InitConfidence == InitWith(ConfidenceInputs, {<<14, 2>>}, {<<14, 2>>, <<14, 3>>, <<9, 2>>}, {0})

SpecConfidence == InitConfidence /\ [][NextFunctions]_vars

\* readings of one slot, and a reading of the same hour on another day
PredictPool ==
  { Record(14, 2, 100), Record(14, 2, 200), Record(14, 2, 300), Record(14, 3, 500) }

PredictInputs == {ArrayInput(q) : q \in SeqsUpTo(PredictPool, MaxPatterns)}

InitPredict == InitWith(PredictInputs, {<<14, 2>>}, Targets, Seeds)

SpecPredict == InitPredict /\ [][NextFunctions]_vars

\* longest array handed to the outlier filter
MaxFilterLen == 6

\* readings whose wattages lie close together or far apart
FilterPool ==
  {Record(14, 2, 100), Record(14, 2, 120), Record(14, 2, 150), Record(14, 2, 400)}

FilterInputs == {ArrayInput(q) : q \in SeqsUpTo(FilterPool, MaxFilterLen)}

InitFilter == InitWith(FilterInputs, {<<14, 2>>}, {<<14, 2>>}, {0})

SpecFilter == InitFilter /\ [][NextFunctions]_vars

\* the filter applied to what it has returned: longer arrays of fewer wattages
MaxRefilterLen == 7

RefilterPool == {Record(14, 2, w) : w \in {100, 120, 150}}

RefilterInputs == {ArrayInput(q) : q \in SeqsUpTo(RefilterPool, MaxRefilterLen)}

InitRefilter == InitWith(RefilterInputs, {<<14, 2>>}, {<<14, 2>>}, {0})

SpecRefilter == InitRefilter /\ [][NextFunctions]_vars

\* the predictor asked for every hour of the day, with a history of at most
\* one reading (of 14 h), so that every other hour has no reading
DefaultInputs == {ArrayInput(<<r>>) : r \in PredictPool}

InitDefault == InitWith(DefaultInputs, {<<14, 2>>}, Hours \X {2}, Seeds)

SpecDefault == InitDefault /\ [][NextFunctions]_vars

\* a caller that makes call after call, each with an input of its choice; the
\* values returned by the earlier calls, and the state of Math.random(), stay
CallInputs ==
  {NullInput,
   ArrayInput(<<Record(14, 2, 150), Record(14, 2, 100)>>),
   ArrayInput(<<Record(14, 2, 100), Record(14, 2, 100), Record(14, 2, 100),
                Record(14, 2, 100), Record(14, 2, 120), Record(14, 2, 150)>>)}

InitCalls == InitWith(CallInputs, {<<14, 2>>}, {<<14, 2>>}, Seeds)

\* the caller takes the input of its next call
NextInput ==
  /\ pc \in {"preprocessed", "analysed"}
  /\ pc' = "ready"
  /\ readings' \in CallInputs
  /\ UNCHANGED <<nowHour, nowDay, rng, normalizedReadings, preprocessed,
                 targetHour, targetDay, predicted, confidence, hourlyPredictions,
                 result, dailyArg, daily>>

NextCalls == CallPreprocess \/ CallAnalysis \/ NextInput

SpecCalls == InitCalls /\ [][NextCalls]_vars

----------------------------------------------------------------------------
(* Claims about the whole pipeline, checked under Spec *)

\* the input is null, undefined or an array (possibly empty) of reading records
IsRecordsInput(rd) ==
  \/ rd.kind \in {"null", "undefined"}
  \/ rd.kind = "array" /\ \A k \in 1..Len(rd.items) : ~rd.items[k].isNull

\* C1: for null, undefined, the empty array and every array of reading records,
\* at every clock, generateEnergyPredictionAnalysis returns exactly 24 hourly
\* predictions.
C1_TwentyFourPredictions ==
  (pc = "analysed" /\ IsRecordsInput(readings))
    => (~result.threw /\ Len(result.value.hourlyPredictions) = 24)

\* an array long enough to be filtered, of which the filter removed a reading,
\* has been analysed and 24 predictions came back
C1_Witness ==
  /\ pc = "analysed"
  /\ readings.kind = "array"
  /\ IsRecordsInput(readings)
  /\ Len(readings.items) > 5
  /\ Len(RemoveOutliers(NormalizedReadings(readings.items, nowHour, nowDay)))
       < Len(readings.items)
  /\ Len(result.value.hourlyPredictions) = 24

\* C2: generateEnergyPredictionAnalysis never raises an error, whatever the
\* input (stated as the claim has it; the code violates it).
C2_NeverRaises == pc = "analysed" => ~result.threw

\* C5: every confidence of the hourly predictions returned is one of
\* 0.6, 0.65, 0.7, 0.8, 0.9.
C5_ConfidenceValues ==
  (pc = "analysed" /\ ~result.threw)
    => \A k \in 1..Len(result.value.hourlyPredictions) :
         result.value.hourlyPredictions[k].confidence \in {60, 65, 70, 80, 90}

\* a result in which a slot has three or more matches of some spread (0.7 or
\* 0.8) and the other slots have none (0.6)
C5_Witness ==
  /\ pc = "analysed"
  /\ ~result.threw
  /\ \E k \in 1..Len(result.value.hourlyPredictions) :
       result.value.hourlyPredictions[k].confidence \in {70, 80}
  /\ \E k \in 1..Len(result.value.hourlyPredictions) :
       result.value.hourlyPredictions[k].confidence = 60

----------------------------------------------------------------------------
(* Claims about the normalizer, checked under SpecNormalize *)

TimestampFields(r) == {r.Timestamp, r.timestamp, r.time}
WattageFields(r) == {r.WattageReading, r.watts, r.value}
HasNoTimestampField(r) == \A f \in TimestampFields(r) : f.kind = "absent"
HasNoWattageField(r) == \A f \in WattageFields(r) : f.kind = "absent"

\* C3: a non-empty array of records is normalized record by record, in order:
\* as many normalized readings as records; a record without a timestamp field
\* gets the hour and weekday of now, a record without a wattage field gets
\* wattage 0, and a record that has usable fields is normalized from its own.
C3_PerRecordDefaulting ==
  (pc = "preprocessed" /\ readings.kind = "array" /\ Len(readings.items) > 0
     /\ IsRecordsInput(readings))
    => /\ ~preprocessed.threw
       /\ Len(normalizedReadings) = Len(readings.items)
       /\ \A k \in 1..Len(readings.items) :
            LET r == readings.items[k]
                nr == normalizedReadings[k]
            IN  /\ HasNoTimestampField(r)
                     => (nr.hour = nowHour /\ nr.dayOfWeek = nowDay)
                /\ HasNoWattageField(r) => nr.wattage = 0
                /\ (\E f \in TimestampFields(r) : f.kind \in {"date", "invalid"})
                     => \E f \in TimestampFields(r) :
                          /\ f.kind \in {"date", "invalid"}
                          /\ nr.hour = (IF f.kind = "date" THEN f.hour ELSE NaN)
                          /\ nr.dayOfWeek = (IF f.kind = "date" THEN f.day ELSE NaN)
                /\ (\E f \in WattageFields(r) : f.kind = "num")
                     => \E f \in WattageFields(r) : f.kind = "num" /\ nr.wattage = f.n

\* a batch of a record lacking both fields and a complete record, normalized
C3_Witness ==
  /\ pc = "preprocessed"
  /\ readings.kind = "array"
  /\ Len(readings.items) = 2
  /\ HasNoTimestampField(readings.items[1]) /\ HasNoWattageField(readings.items[1])
  /\ readings.items[2] = Record(14, 2, 100)
  /\ nowHour # 14
  /\ normalizedReadings = <<Reading(nowHour, nowDay, 0), Reading(14, 2, 100)>>

----------------------------------------------------------------------------
(* Claims about the confidence estimator, checked under SpecConfidence *)

RECURSIVE SetSum(_, _)
\* the sum of f[k] over the k of the set S
SetSum(f, S) ==
  IF S = {} THEN 0
  ELSE LET k == CHOOSE x \in S : TRUE IN f[k] + SetSum(f, S \ {k})

\* the positions of the readings of data for the slot (h, d)
ExactIndices(data, h, d) ==
  {k \in 1..Len(data) : data[k].hour = h /\ data[k].dayOfWeek = d}

\* CV < c / 10 for the wattages of data at the positions I, from the definitions:
\* with n values of sum S, the population variance is the mean of the squared
\* deviations (w - S/n)^2, that is D / n^3 with D the sum of (n*w - S)^2, and
\* the mean is S / n, so CV^2 = D / (n * S^2)
CVLessThan(data, I, c) ==
  LET n == Cardinality(I)
      S == SetSum([k \in 1..Len(data) |-> data[k].wattage], I)
      D == SetSum([k \in 1..Len(data) |->
                     (n * data[k].wattage - S) * (n * data[k].wattage - S)], I)
  IN  IF S = 0 THEN FALSE                       \* CV taken as 1.0
      ELSE 100 * D < c * c * n * S * S

ExpectedConfidence(data, h, d) ==
  LET I == ExactIndices(data, h, d)
  IN  IF Cardinality(I) = 0 THEN 60
      ELSE IF Cardinality(I) <= 2 THEN 65
      ELSE IF CVLessThan(data, I, 1) THEN 90
      ELSE IF CVLessThan(data, I, 2) THEN 80
      ELSE IF CVLessThan(data, I, 3) THEN 70
      ELSE 60

\* C4: the confidence is determined by the readings of the slot (h, d): none
\* gives 0.6, one or two give 0.65, three or more give the band of their
\* CV = population standard deviation / mean (1.0 when the mean is 0): 0.9
\* below 0.1, 0.8 below 0.2, 0.7 below 0.3, else 0.6; 500, 600, 700 give 0.8.
C4_ConfidenceBands ==
  pc = "estimated"
    => /\ confidence = ExpectedConfidence(preprocessed.value, targetHour, targetDay)
       /\ LET I == ExactIndices(preprocessed.value, targetHour, targetDay)
          IN  (/\ Cardinality(I) = 3
               /\ {preprocessed.value[k].wattage : k \in I} = {500, 600, 700})
                => confidence = 80

\* the estimator has been asked about a slot with the readings 500, 600, 700
\* (and a reading of the same hour on another day) and has answered 0.8
C4_Witness ==
  /\ pc = "estimated"
  /\ targetHour = 14 /\ targetDay = 2
  /\ preprocessed.value = <<Reading(14, 2, 500), Reading(14, 3, 600),
                            Reading(14, 2, 600), Reading(14, 2, 700)>>
  /\ confidence = 80

----------------------------------------------------------------------------
(* Claims about the predictor, checked under SpecPredict *)

\* the positions of the readings of data with hour h, on any day
HourIndices(data, h) == {k \in 1..Len(data) : data[k].hour = h}

\* the positions the three-step fallback selects: the slot's, else the hour's
MatchedIndices(data, h, d) ==
  IF ExactIndices(data, h, d) # {} THEN ExactIndices(data, h, d)
  ELSE HourIndices(data, h)

\* the 0-based rank of position k among the positions I, in order of appearance
RankIn(I, k) == Cardinality({j \in I : j < k})

\* sum(wattage_i * (N - i)) and sum(N - i) over the readings at the positions I
RankWeightedSum(data, I) ==
  SetSum([k \in 1..Len(data) |->
            IF k \in I THEN data[k].wattage * (Cardinality(I) - RankIn(I, k)) ELSE 0], I)
RankWeightTotal(data, I) ==
  SetSum([k \in 1..Len(data) |->
            IF k \in I THEN Cardinality(I) - RankIn(I, k) ELSE 0], I)

\* the values generateDefaultValue can return for hour h
DefaultValues(h) == {generateDefaultValue(h, s) : s \in Seeds}

\* C6: the predictor always returns a number; it is the average of the
\* readings of the slot (h, d) when there is one, else that of the readings of
\* hour h on any day when there is one, else the time-of-day default of h.
C6_ThreeStepFallback ==
  pc = "predicted"
    => LET data == preprocessed.value
           E == ExactIndices(data, targetHour, targetDay)
           H == HourIndices(data, targetHour)
       IN  /\ predicted.den > 0
           /\ E # {} => predicted.num * RankWeightTotal(data, E)
                          = predicted.den * RankWeightedSum(data, E)
           /\ (E = {} /\ H # {})
                => predicted.num * RankWeightTotal(data, H)
                     = predicted.den * RankWeightedSum(data, H)
           /\ H = {} => (predicted.den = 1 /\ predicted.num \in DefaultValues(targetHour))

\* the predictor has fallen back to the readings of the same hour on another
\* day, in a history that holds no reading of the slot itself
C6_Witness ==
  /\ pc = "predicted"
  /\ targetHour = 14 /\ targetDay = 4
  /\ Len(preprocessed.value) >= 2
  /\ \E k \in 1..Len(preprocessed.value) : preprocessed.value[k].dayOfWeek = 2
  /\ \E k \in 1..Len(preprocessed.value) : preprocessed.value[k].dayOfWeek = 3
  /\ predicted.den > 1

\* C7: with N >= 1 matching readings in their order of appearance, the result
\* is sum(wattage_i * (N - i)) / sum(N - i), i = 0..N-1: the first matching
\* reading weighs N, the last weighs 1.
C7_WeightsByPosition ==
  (pc = "predicted" /\ MatchedIndices(preprocessed.value, targetHour, targetDay) # {})
    => LET data == preprocessed.value
           I == MatchedIndices(data, targetHour, targetDay)
           N == Cardinality(I)
           first == CHOOSE k \in I : \A j \in I : k <= j
           last == CHOOSE k \in I : \A j \in I : j <= k
           weight == [k \in I |-> N - RankIn(I, k)]
       IN  /\ weight[first] = N
           /\ weight[last] = 1
           /\ predicted.den = (N * (N + 1)) \div 2
           /\ predicted.num = SetSum([k \in 1..Len(data) |->
                                         IF k \in I THEN data[k].wattage * weight[k]
                                         ELSE 0], I)

\* three matching readings of different wattages, in decreasing order, among
\* which lies a reading of another day, have been averaged
C7_Witness ==
  /\ pc = "predicted"
  /\ targetHour = 14 /\ targetDay = 2
  /\ preprocessed.value = <<Reading(14, 2, 300), Reading(14, 3, 500),
                            Reading(14, 2, 200), Reading(14, 2, 100)>>
  /\ predicted = [num |-> 3 * 300 + 2 * 200 + 1 * 100, den |-> 6]

\* the target slot has exactly three readings, of wattages 100, 200, 300 in
\* that order
IsExample ==
  /\ pc = "predicted"
  /\ Wattages(ExactPatterns(preprocessed.value, targetHour, targetDay))
       = <<100, 200, 300>>

\* C8 as stated: exactly three matching readings of a slot, with wattages 100,
\* 200, 300 in that order, give the prediction 116.7 once rounded to 1 decimal.
C8_Example == IsExample => RoundTenths(predicted) = 1167

\* C8 as amended: (100*3 + 200*2 + 300*1) / 6 = 1000 / 6, and the prediction is
\* 166.7 once rounded to 1 decimal.
C8_ExampleAmended ==
  IsExample => (/\ predicted.num * 6 = 1000 * predicted.den
                /\ RoundTenths(predicted) = 1667)

\* the example itself: the readings 100, 200, 300 of the target slot
C8_Witness ==
  /\ pc = "predicted"
  /\ targetHour = 14 /\ targetDay = 2
  /\ preprocessed.value = <<Reading(14, 2, 100), Reading(14, 2, 200), Reading(14, 2, 300)>>
  /\ predicted = [num |-> 1000, den |-> 6]

----------------------------------------------------------------------------
(* Claims about the outlier filter, checked under SpecFilter *)

\* the k-th smallest (k = 0 .. n-1) of the wattages ws, by counting
OrderStatistic(ws, k) ==
  CHOOSE v \in {ws[i] : i \in 1..Len(ws)} :
    /\ Cardinality({i \in 1..Len(ws) : ws[i] < v}) <= k
    /\ k < Cardinality({i \in 1..Len(ws) : ws[i] <= v})

\* 4 * the quantile qNum / 4 of ws by linear interpolation at (n - 1) * q
InterpolatedQuantile4(ws, qNum) ==
  LET n == Len(ws)
      below == ((n - 1) * qNum) \div 4
      frac4 == ((n - 1) * qNum) % 4
      above == IF below + 1 <= n - 1 THEN below + 1 ELSE below
  IN  4 * OrderStatistic(ws, below)
        + frac4 * (OrderStatistic(ws, above) - OrderStatistic(ws, below))

\* Q1 - 1.5 * IQR <= w <= Q3 + 1.5 * IQR, all multiplied by 8
WithinIQRRange(ws, w) ==
  LET Q1 == InterpolatedQuantile4(ws, 1)
      Q3 == InterpolatedQuantile4(ws, 3)
      IQR == Q3 - Q1
  IN  2 * Q1 - 3 * IQR <= 8 * w /\ 8 * w <= 2 * Q3 + 3 * IQR

\* C9: of more than 5 readings the filter returns exactly those whose wattage
\* lies in [Q1 - 1.5 IQR, Q3 + 1.5 IQR], Q1 and Q3 being the interpolated
\* quartiles of all wattages; they keep their relative order, and the output
\* is never longer than the input.
C9_IQRFilter ==
  (pc = "preprocessed" /\ Len(normalizedReadings) > 5)
    => LET ws == Wattages(normalizedReadings)
       IN  /\ ~preprocessed.threw
           /\ preprocessed.value
                = SelectSeq(normalizedReadings, LAMBDA r : WithinIQRRange(ws, r.wattage))
           /\ Len(preprocessed.value) <= Len(normalizedReadings)

\* six readings of which the filter has removed the highest, the quartiles not
\* being readings themselves (they are interpolated)
C9_Witness ==
  /\ pc = "preprocessed"
  /\ Wattages(normalizedReadings) = <<100, 400, 150, 120, 100, 120>>
  /\ Wattages(preprocessed.value) = <<100, 150, 120, 100, 120>>

\* C10: 1 to 5 readings are not filtered: all normalized readings come back,
\* in order, whatever their spread.
C10_SmallSampleBypass ==
  (pc = "preprocessed" /\ Len(readings.items) >= 1 /\ Len(readings.items) <= 5)
    => /\ Len(normalizedReadings) = Len(readings.items)
       /\ preprocessed = Returned(normalizedReadings)
       /\ \A k \in 1..Len(readings.items) :
            preprocessed.value[k].wattage = readings.items[k].WattageReading.n

\* five readings of a spread that would make the filter (had it been applied)
\* remove one, all returned
C10_Witness ==
  /\ pc = "preprocessed"
  /\ Wattages(preprocessed.value) = <<100, 100, 400, 100, 100>>
  /\ ~WithinIQRRange(<<100, 100, 400, 100, 100>>, 400)

----------------------------------------------------------------------------
(* Claims about the daily summary and the fields of the analysis, checked
   under Spec *)

\* summary is the rounding of the total, the peak and the mean confidence of
\* the predictions p, stated without Round: the total (tenths of a watt) in
\* kWh is total / 10000, so in hundredths total / 100; a value exactly halfway
\* may be rounded either way (doubles), except the peak, whose halves are exact
IsSummaryOf(summary, p) ==
  LET n == Len(p)
      total == SeqSum([k \in 1..n |-> p[k].predictedWattage])
      confs == SeqSum([k \in 1..n |-> p[k].confidence])
  IN  /\ 100 * summary.totalKWh - 50 <= total
      /\ total <= 100 * summary.totalKWh + 50
      /\ \E k \in 1..n :
           /\ \A j \in 1..n : p[j].predictedWattage <= p[k].predictedWattage
           /\ 10 * summary.peakWattage - 5 <= p[k].predictedWattage
           /\ p[k].predictedWattage < 10 * summary.peakWattage + 5
      /\ 2 * n * summary.averageConfidence - n <= 2 * confs
      /\ 2 * confs <= 2 * n * summary.averageConfidence + n

\* C11: for every non-empty list of hourly predictions, calculateDailyPrediction
\* returns the sum of the predicted wattages divided by 1000 and rounded to 2
\* decimals, the largest predicted wattage rounded to the nearest integer, and
\* the mean of the confidences rounded to 2 decimals; so does the dailySummary
\* of the analysis for its 24 predictions.
C11_DailySummary ==
  /\ (pc = "summarised" /\ dailyArg.kind = "array" /\ Len(dailyArg.items) > 0)
       => IsSummaryOf(daily, dailyArg.items)
  /\ (pc = "analysed" /\ ~result.threw)
       => IsSummaryOf(result.value.dailySummary, hourlyPredictions.value)

\* calculateDailyPrediction has summarised 24 predictions, and rounded the
\* total and the peak upwards
C11_Witness ==
  /\ pc = "summarised"
  /\ dailyArg.kind = "array"
  /\ Len(dailyArg.items) = 24
  /\ 100 * daily.totalKWh
       > SeqSum([k \in 1..24 |-> dailyArg.items[k].predictedWattage])
  /\ \E k \in 1..24 : 10 * daily.peakWattage > dailyArg.items[k].predictedWattage
  /\ \A k \in 1..24 : 10 * daily.peakWattage >= dailyArg.items[k].predictedWattage

\* C12: isBasedOnRealData is the boolean true exactly when the input is an
\* array of more than 5 readings (counted before filtering), and the boolean
\* false otherwise, in particular for null, undefined, empty and non-array
\* inputs (stated as the claim has it; the code violates it).
C12_BooleanFlag ==
  (pc = "analysed" /\ ~result.threw)
    => result.value.isBasedOnRealData =
         (IF readings.kind = "array" /\ Len(readings.items) > 5
          THEN "true" ELSE "false")

\* C13: dataPoints is the number of records of the raw input, counted before
\* normalization and filtering, and 0 when the input is null or undefined.
C13_DataPoints ==
  (pc = "analysed" /\ ~result.threw)
    => /\ readings.kind = "array" => result.value.dataPoints = Len(readings.items)
       /\ readings.kind \in {"null", "undefined"} => result.value.dataPoints = 0

\* an array of 6 records has been analysed, the filter removed one of them, and
\* dataPoints is 6
C13_Witness ==
  /\ pc = "analysed"
  /\ ~result.threw
  /\ readings.kind = "array"
  /\ Len(readings.items) = 6
  /\ Len(preprocessed.value) < 6
  /\ result.value.dataPoints = 6

\* C14: for the empty array, at every clock, the analysis has isBasedOnRealData
\* false, dataPoints 0, and 24 predictions each of confidence 0.6 (stated as
\* the claim has it; the code violates it).
C14_EmptyArray ==
  (pc = "analysed" /\ readings = ArrayInput(<<>>))
    => /\ ~result.threw
       /\ result.value.isBasedOnRealData = "false"
       /\ result.value.dataPoints = 0
       /\ Len(hourlyPredictions.value) = 24
       /\ \A k \in 1..24 : hourlyPredictions.value[k].confidence = 60

----------------------------------------------------------------------------
(* Claims about the outlier filter applied again, checked under SpecRefilter *)

\* C15: the outlier filter is idempotent: applied to the readings it has
\* returned, it returns them unchanged, for every sequence of wattages (stated
\* as the claim has it; a second pass computes new quartiles, from the
\* readings that are left, and may remove more).
C15_Idempotent ==
  (pc = "preprocessed" /\ ~preprocessed.threw)
    => FilterStep(preprocessed.value) = preprocessed.value

\* C15, amended: the filter applied to the readings it has returned returns
\* them unchanged when it has returned at most 5 readings or has removed none.
C15_IdempotentAmended ==
  (pc = "preprocessed" /\ ~preprocessed.threw)
    => ((Len(preprocessed.value) <= 5 \/ preprocessed.value = normalizedReadings)
          => FilterStep(preprocessed.value) = preprocessed.value)

\* the filter has removed a reading and left 5, of which the interquartile
\* rule would remove another, and a second application leaves the 5 as they are
C15_Witness ==
  /\ pc = "preprocessed"
  /\ ~preprocessed.threw
  /\ Len(normalizedReadings) > 5
  /\ Len(preprocessed.value) = 5
  /\ RemoveOutliers(preprocessed.value) # preprocessed.value
  /\ FilterStep(preprocessed.value) = preprocessed.value

----------------------------------------------------------------------------
(* Claims about the quantiles, checked under SpecFilter *)

\* C16: for every non-empty array of wattages the quantile for q = 0.25 is at
\* most the quantile for q = 0.75: the interquartile range is never negative
\* and the lower bound of the filter never exceeds the upper bound.
C16_QuartileOrder ==
  (pc = "preprocessed" /\ Len(normalizedReadings) > 0)
    => LET values == Wattages(normalizedReadings)
       IN  /\ calculateQuantile4(values, 1) <= calculateQuantile4(values, 3)
           /\ LowerBound8(values) <= UpperBound8(values)

\* the quartiles of 6 wattages given in descending order have been computed,
\* they differ, and the filter has removed a reading
C16_Witness ==
  /\ pc = "preprocessed"
  /\ Len(normalizedReadings) = 6
  /\ \A k \in 1..5 : normalizedReadings[k].wattage >= normalizedReadings[k + 1].wattage
  /\ calculateQuantile4(Wattages(normalizedReadings), 1)
       < calculateQuantile4(Wattages(normalizedReadings), 3)
  /\ Len(preprocessed.value) < 6

----------------------------------------------------------------------------
(* Claims about the 24 slots, checked under Spec *)

\* w (tenths of a watt) is the prediction for the slot (h, d) from data: the
\* weighted average of the matched readings rounded to 1 decimal, or a default
IsPredictionFor(w, data, h, d) ==
  LET M == MatchedIndices(data, h, d)
      S == RankWeightedSum(data, M)
      T == RankWeightTotal(data, M)
  IN  IF M = {} THEN \E v \in DefaultValues(h) : w = 10 * v
      ELSE 20 * S - T < 2 * w * T /\ 2 * w * T <= 20 * S + T

\* C17: the i-th prediction (i = 0..23) has hour (currentHour + i) mod 24 and
\* dayOfWeek (currentDay + floor((currentHour + i) / 24)) mod 7, its wattage
\* and its confidence are those of the predictor and the estimator for that
\* hour and day, and its time is the start of the hour i hours after the
\* current one, so the times increase by one hour from entry to entry.
C17_Slots ==
  (pc = "analysed" /\ ~hourlyPredictions.threw)
    => \A i \in 0..23 :
         LET p == hourlyPredictions.value[i + 1]
             h == (nowHour + i) % 24
             d == (nowDay + (nowHour + i) \div 24) % 7
         IN  /\ p.hour = h
             /\ p.dayOfWeek = d
             /\ IsPredictionFor(p.predictedWattage, preprocessed.value, h, d)
             /\ p.confidence = ExpectedConfidence(preprocessed.value, h, d)
             /\ p.time = 24 * nowDay + nowHour + i
             /\ i < 23 => hourlyPredictions.value[i + 2].time = p.time + 1

\* at 23 h on a Saturday the second slot is hour 0 of Sunday, and the slot of
\* 14 h on Sunday is predicted from the readings of 14 h on Tuesday
C17_Witness ==
  /\ pc = "analysed"
  /\ ~hourlyPredictions.threw
  /\ nowHour = 23
  /\ nowDay = 6
  /\ readings.kind = "array"
  /\ hourlyPredictions.value[1].hour = 23
  /\ hourlyPredictions.value[1].dayOfWeek = 6
  /\ hourlyPredictions.value[2].hour = 0
  /\ hourlyPredictions.value[2].dayOfWeek = 0
  /\ hourlyPredictions.value[16].hour = 14
  /\ HourIndices(preprocessed.value, 14) # {}
  /\ ExactIndices(preprocessed.value, 14, 0) = {}
  /\ hourlyPredictions.value[16].predictedWattage \in {1000, 1250, 1500}

----------------------------------------------------------------------------
(* Claims about the summary of no predictions, checked under Spec *)

\* C18: given no predictions (the empty list, null or undefined),
\* calculateDailyPrediction raises no error and returns the fixed summary of
\* 19.2 kWh, 1800 W and confidence 0.6.
C18_DefaultSummary ==
  (pc = "summarised" /\ (dailyArg.kind # "array" \/ Len(dailyArg.items) = 0))
    => daily = [totalKWh |-> 1920, peakWattage |-> 1800, averageConfidence |-> 60]

\* calculateDailyPrediction has been called with null and has returned 19.2 kWh
C18_Witness ==
  /\ pc = "summarised"
  /\ dailyArg = NullInput
  /\ daily.totalKWh = 1920
  /\ daily.peakWattage = 1800

----------------------------------------------------------------------------
(* Claims about the time-of-day defaults, checked under SpecDefault *)

\* the bands of the hours of the day
NightHour(h) == h = 23 \/ h \in 0..4
MorningHour(h) == h \in 5..8
DaytimeHour(h) == h \in 9..16
EveningHour(h) == h \in 17..22

\* lo <= num / den <= hi
Between(p, lo, hi) == lo * p.den <= p.num /\ p.num <= hi * p.den

\* C19: when no reading has the target hour, the value predictEnergyUsage
\* returns lies in the band of that hour: [300, 400] for 23 and 0..4,
\* [1200, 1500] for 5..8, [800, 1000] for 9..16, [1500, 1800] for 17..22; and
\* every hour is in exactly one of the four bands.
C19_DefaultBands ==
  pc = "predicted"
    => /\ HourIndices(preprocessed.value, targetHour) = {}
            => /\ NightHour(targetHour) => Between(predicted, 300, 400)
               /\ MorningHour(targetHour) => Between(predicted, 1200, 1500)
               /\ DaytimeHour(targetHour) => Between(predicted, 800, 1000)
               /\ EveningHour(targetHour) => Between(predicted, 1500, 1800)
       /\ Cardinality({b \in {"night", "morning", "daytime", "evening"} :
            \/ b = "night" /\ NightHour(targetHour)
            \/ b = "morning" /\ MorningHour(targetHour)
            \/ b = "daytime" /\ DaytimeHour(targetHour)
            \/ b = "evening" /\ EveningHour(targetHour)}) = 1

\* the predictor was asked for 23 h, of which the history has no reading, and
\* returned a value above 300
C19_Witness ==
  /\ pc = "predicted"
  /\ targetHour = 23
  /\ HourIndices(preprocessed.value, 23) = {}
  /\ Len(preprocessed.value) > 0
  /\ predicted.num > 300 * predicted.den
  /\ predicted.num <= 400 * predicted.den

----------------------------------------------------------------------------
(* Claims about calls made one after another, checked under SpecCalls *)

----------------------------------------------------------------------------
(* Claims about the forecast made from no readings, checked under Spec *)

\* w (tenths of a watt) lies in the band of the time-of-day defaults of hour h
InDefaultBand(w, h) ==
  /\ NightHour(h) => (3000 <= w /\ w <= 4000)
  /\ MorningHour(h) => (12000 <= w /\ w <= 15000)
  /\ DaytimeHour(h) => (8000 <= w /\ w <= 10000)
  /\ EveningHour(h) => (15000 <= w /\ w <= 18000)

\* C21: for null, undefined and the empty array, on every weekday, each of the
\* 24 predicted wattages lies in the default band of its hour: 300-400 W at
\* night, 1200-1500 W in the morning, 800-1000 W in the daytime, 1500-1800 W
\* in the evening (stated as the claim has it; the code violates it).
C21_EmptyInputBands ==
  (pc = "analysed"
     /\ (readings.kind \in {"null", "undefined"} \/ readings = ArrayInput(<<>>)))
    => /\ ~hourlyPredictions.threw
       /\ Len(hourlyPredictions.value) = 24
       /\ \A k \in 1..24 :
            InDefaultBand(hourlyPredictions.value[k].predictedWattage,
                          hourlyPredictions.value[k].hour)

\* C22: the 24 slots start at the next hour boundary after now: the time of
\* the first prediction is later than the moment of the call, and so is every
\* other.  The call is made within the hour that starts at 24 * nowDay +
\* nowHour, and a time is a whole hour, so a time is later than the call
\* exactly when it is greater than the start of the current hour (stated as
\* the claim has it; the code violates it).
C22_FutureSlots ==
  (pc = "analysed" /\ ~hourlyPredictions.threw)
    => \A k \in 1..Len(hourlyPredictions.value) :
         hourlyPredictions.value[k].time > 24 * nowDay + nowHour

----------------------------------------------------------------------------
(* Claims about the order of the matched readings, checked under SpecPredict *)

Distance(x, y) == IF x >= y THEN x - y ELSE y - x

----------------------------------------------------------------------------
(* Claims about the matches of the estimator, checked under SpecConfidence *)

\* the readings of data at the positions I, in their order
ReadingsAt(data, I) == SelectSeq([k \in 1..Len(data) |-> <<k, data[k]>>],
                                 LAMBDA e : e[1] \in I)

\* C24: the estimator never relaxes to the readings of the same hour on other
\* days: a slot (h, d) without a reading at (h, d) has confidence 0.6, however
\* many readings of hour h the predictor averaged for it, and the confidence
\* of a slot is that of the readings at exactly (h, d) taken alone.
C24_ExactMatchesOnly ==
  pc = "estimated"
    => LET data == preprocessed.value
           E == ExactIndices(data, targetHour, targetDay)
           exact == [k \in 1..Len(ReadingsAt(data, E)) |-> ReadingsAt(data, E)[k][2]]
       IN  /\ E = {} => confidence = 60
           /\ confidence = ExpectedConfidence(exact, targetHour, targetDay)

\* for 14 h on Wednesday, of which there is no reading, the predictor matches
\* three or more consistent readings of 14 h on Tuesday, and the confidence
\* is 0.6
C24_Witness ==
  /\ pc = "estimated"
  /\ targetHour = 14
  /\ targetDay = 3
  /\ ExactIndices(preprocessed.value, 14, 3) = {}
  /\ Cardinality(HourIndices(preprocessed.value, 14)) >= 3
  /\ CVLessThan(preprocessed.value, HourIndices(preprocessed.value, 14), 1)
  /\ Len(SimilarPatterns(preprocessed.value, 14, 3)) >= 3
  /\ confidence = 60

----------------------------------------------------------------------------
(* Claims about the field synonyms, checked under SpecNormalize *)

\* the first field of the sequence fields that is present, else the default
RECURSIVE FirstPresent(_, _)
FirstPresent(fields, default) ==
  IF fields = <<>> THEN default
  ELSE IF Head(fields).kind # "absent" THEN Head(fields)
  ELSE FirstPresent(Tail(fields), default)

\* C25: the normalized wattage is the value of the first field present on the
\* record in the order WattageReading, watts, value, also when that value is
\* 0, and 0 only when none of them is present; likewise the timestamp is the
\* first present of Timestamp, timestamp, time (stated as the claim has it;
\* the code violates it).
C25_FirstPresentField ==
  (pc = "preprocessed" /\ readings.kind = "array" /\ Len(readings.items) > 0
     /\ IsRecordsInput(readings))
    => \A k \in 1..Len(readings.items) :
         LET r == readings.items[k]
             nr == normalizedReadings[k]
             w == FirstPresent(<<r.WattageReading, r.watts, r.value>>, Num(0))
             t == FirstPresent(<<r.Timestamp, r.timestamp, r.time>>,
                               Stamp(nowHour, nowDay))
         IN  /\ nr.wattage = w.n
             /\ t.kind \in {"date", "invalid"}
                  => (nr.hour = GetHours(t) /\ nr.dayOfWeek = GetDay(t))

----------------------------------------------------------------------------
(* Claims about the normalizing stage and empty input, checked under Spec *)

\* the input is null, undefined, no array, or the empty array
IsAbsentInput(rd) == rd.kind # "array" \/ rd.items = <<>>

----------------------------------------------------------------------------
(* Claims about what the filter keeps, checked under SpecFilter *)

\* Q1 <= w <= Q3, multiplied by 4
BetweenQuartiles(ws, w) ==
  InterpolatedQuantile4(ws, 1) <= 4 * w /\ 4 * w <= InterpolatedQuantile4(ws, 3)

\* C27: the filter never empties its input: of more than 5 readings (of finite
\* wattages) every reading whose wattage lies between Q1 and Q3 is kept, and
\* there is such a reading, so that generateHourlyPredictions does not take
\* its branch for no readings.
C27_NeverEmpties ==
  (pc = "preprocessed" /\ Len(normalizedReadings) > 5)
    => LET ws == Wattages(normalizedReadings)
       IN  /\ SelectSeq(normalizedReadings, LAMBDA r : BetweenQuartiles(ws, r.wattage))
                = SelectSeq(preprocessed.value, LAMBDA r : BetweenQuartiles(ws, r.wattage))
           /\ \E k \in 1..Len(preprocessed.value) :
                BetweenQuartiles(ws, preprocessed.value[k].wattage)
           /\ Len(generateHourlyPredictions(readings, nowHour, nowDay, rng).value) = 24

\* the filter has removed the highest of six readings, which lies above Q3,
\* and kept the others
C27_Witness ==
  /\ pc = "preprocessed"
  /\ Len(normalizedReadings) = 6
  /\ Len(preprocessed.value) > 0
  /\ Len(preprocessed.value) < 6
  /\ \E k \in 1..6 : ~BetweenQuartiles(Wattages(normalizedReadings),
                                       normalizedReadings[k].wattage)
  /\ \E k \in 1..6 :
       /\ normalizedReadings[k].wattage > SeqMax(Wattages(preprocessed.value))

----------------------------------------------------------------------------
(* Claims about the range of the prediction, checked under SpecPredict *)

\* C28: when a reading matches, the value of predictEnergyUsage lies between
\* the least and the greatest wattage of the matched readings, and is their
\* common wattage when they are all equal; so wattages that are not negative
\* never give a negative predictedWattage.
C28_WithinMatchedRange ==
  pc = "predicted"
    => LET data == preprocessed.value
           M == MatchedIndices(data, targetHour, targetDay)
       IN  M # {}
             => /\ predicted.den > 0
                /\ \E j \in M : data[j].wattage * predicted.den <= predicted.num
                /\ \E j \in M : predicted.num <= data[j].wattage * predicted.den
                /\ \A w \in {data[j].wattage : j \in M} :
                     {data[j].wattage : j \in M} = {w}
                       => predicted.num = w * predicted.den
                /\ (\A j \in M : data[j].wattage >= 0) => RoundTenths(predicted) >= 0

\* the predictor has averaged matched readings of 100 W to 300 W and returned
\* a value strictly between the two
C28_Witness ==
  /\ pc = "predicted"
  /\ Cardinality(ExactIndices(preprocessed.value, targetHour, targetDay)) >= 3
  /\ \E k \in 1..Len(preprocessed.value) : preprocessed.value[k].wattage = 100
  /\ \E k \in 1..Len(preprocessed.value) : preprocessed.value[k].wattage = 300
  /\ ~(\E k \in 1..Len(preprocessed.value) : preprocessed.value[k].wattage = 500)
  /\ 100 * predicted.den < predicted.num
  /\ predicted.num < 300 * predicted.den

----------------------------------------------------------------------------
(* Claims about the hours and days of the 24 slots, checked under Spec *)

\* C29: the hours of the 24 predictions are the 24 values 0..23, each once,
\* and the dayOfWeek is currentDay for the slots up to hour 23 and
\* (currentDay + 1) mod 7 for all slots after the wrap to hour 0, never
\* switching back.
C29_HoursOnceDaysTwice ==
  (pc = "analysed" /\ ~hourlyPredictions.threw)
    => LET p == hourlyPredictions.value
       IN  /\ Len(p) = 24
           /\ {p[k].hour : k \in 1..24} = 0..23
           /\ \A j, k \in 1..24 : p[j].hour = p[k].hour => j = k
           /\ \A k \in 1..24 :
                p[k].dayOfWeek = (IF \A j \in 1..k : p[j].hour # 0 \/ j = 1
                                  THEN nowDay ELSE (nowDay + 1) % 7)
           /\ \A j, k \in 1..24 :
                (j < k /\ p[j].dayOfWeek # nowDay) => p[k].dayOfWeek = p[j].dayOfWeek

\* at 23 h on a Saturday the first slot is of Saturday and the 23 others are
\* of Sunday
C29_Witness ==
  /\ pc = "analysed"
  /\ ~hourlyPredictions.threw
  /\ nowHour = 23
  /\ nowDay = 6
  /\ hourlyPredictions.value[1].dayOfWeek = 6
  /\ \A k \in 2..24 : hourlyPredictions.value[k].dayOfWeek = 0
  /\ hourlyPredictions.value[24].hour = 22

-----------------------------------------------------------------------------
(* Claims about the source of randomness, checked under Spec *)

\* the forecast a second run on the same input at the same clock returns when
\* its random draws start at s
SecondRun(s) == generateHourlyPredictions(readings, nowHour, nowDay, s)

\* slot k of the forecast has a reading of its hour in the filtered data
HasHourReading(k) ==
  HourIndices(preprocessed.value, hourlyPredictions.value[k].hour) # {}

\* C30: for two runs on the same input array of at least one reading at the
\* same clock, every slot whose hour has at least one reading after filtering
\* has the same predicted wattage and the same confidence in both runs,
\* whatever the random draws of the two runs are.
C30_RandomOnlyInDefaults ==
  (/\ pc = "analysed"
   /\ readings.kind = "array"
   /\ Len(readings.items) >= 1
   /\ ~hourlyPredictions.threw)
    => \A s \in Seeds :
         /\ ~SecondRun(s).threw
         /\ Len(SecondRun(s).value) = Len(hourlyPredictions.value)
         /\ \A k \in 1..Len(hourlyPredictions.value) :
              HasHourReading(k)
                => /\ SecondRun(s).value[k].predictedWattage
                        = hourlyPredictions.value[k].predictedWattage
                   /\ SecondRun(s).value[k].confidence
                        = hourlyPredictions.value[k].confidence

\* two runs on two readings of 14h agree on the slot of 14h and differ on a
\* slot without a reading of its hour
C30_Witness ==
  /\ pc = "analysed"
  /\ readings.kind = "array"
  /\ Len(readings.items) = 2
  /\ ~hourlyPredictions.threw
  /\ nowHour = 14
  /\ HasHourReading(1)
  /\ \E s \in Seeds : \E k \in 2..24 :
       /\ ~HasHourReading(k)
       /\ SecondRun(s).value[k].predictedWattage
            # hourlyPredictions.value[k].predictedWattage
       /\ SecondRun(s).value[1].predictedWattage
            = hourlyPredictions.value[1].predictedWattage

====
